---- MODULE Spec2Model ----
\* Model of the concurrent transaction dispatch engine of
\* anvil/trading_simulator.py (RealtimeTradingSimulator) together with the
\* ledger it talks to through web3.
\*
\* Money is counted in gwei: an amount_eth of the source is its value times
\* 10^9, and a wei quantity is its value divided by 10^9.  Time is kept as the
\* age in seconds of each cache entry, which is all the code ever compares.
EXTENDS Integers, Naturals, Sequences, FiniteSets, TLC

\* ---------------------------------------------------------------- bounds
NumAccounts == 2
MaxOps == 2
\* Rounds of simulate_random_trading that find no sender.
MaxFailedRounds == 1
\* Intents a paced generator emits before its duration has elapsed.
MaxEmissions == 3

\* ------------------------------------------------------ program constants
Gas == 21000
DefaultGasPrice == 2
GasReserve == 10000000
StaleWindow == 5
ReceiptTimeout == 30

Nil == 0 - 1
NoTask == Nil
\* Value of current while a generator coroutine holds the event loop.
GenTask == 0

\* Limits of the loops of simulate_random_trading.
MaxCandidateAttempts == 10
max_failed_attempts == 100

\* (min_amount, max_amount) of a simulate_random_trading run, in gwei: runs
\* that send 0.001 ETH and 0.49 ETH at a time, and a run that asks for 1 ETH,
\* more than any account holds, and so finds no sender.
RandomArgs == {<<1000000, 1000000>>, <<490000000, 490000000>>}
StarvedArgs == {<<1000000000, 1000000000>>}

Accounts == 0 .. (NumAccounts - 1)
OpIds == 1 .. MaxOps

\* Balances found on the ledger when the simulator is constructed: account 0
\* holds 0.5 ETH, every other account 0.005 ETH, less than the gas reserve.
InitialBalance(a) == IF a = 0 THEN 500000000 ELSE 5000000

\* Gas prices the ledger may report (gwei).
LedgerGasPrices == {2}

\* (amount_eth, min_amount) pairs a generator may hand to the dispatcher.
IntentAmounts == {<<1000000, 1000000>>, <<750000000, 600000000>>}

\* What a call of the registered observer callback may do.
ObserverOutcomes == {"returns", "raises"}

\* Pacing, in tenths of a second: the sleep between two emissions
\* (1 / transactions_per_second, 1 / strategy.frequency), the time one call
\* of send_transaction_async holds the event loop, and the time the blocking
\* balance queries of a candidate selection take.
interval == 2
Latencies == {0, 1, 3}
SelectionTimes == {0, 1}

\* initialize: the number of literal keys in default_private_keys, and the
\* number of accounts it takes from the node at most.
NumDefaultKeys == 10
AccountCap == 50

\* Numbers of accounts the node may report to get_accounts (AnvilManager is
\* constructed with accounts=N); 0 is also what get_accounts returns when the
\* request fails.
SourceSizes == {0, 2, 10, 12, 50, 52}

Min(a, b) == IF a < b THEN a ELSE b
Max(a, b) == IF a > b THEN a ELSE b

VARIABLES
    balance_cache,          \* address -> cached balance, Nil when absent
    balance_age,            \* address -> seconds since last_balance_update, Nil when absent
    stats,                  \* the stats dict
    on_transaction_complete,\* "none" or "set": whether a callback is registered
    ops,                    \* op id -> frame and history of one send_transaction_async call
    current,                \* op whose coroutine holds the event loop, NoTask if none
    issueLog,               \* address -> op ids in the order their nonces were read
    sendLog,                \* address -> <<op id, nonce, accepted>> in the order of send_raw_transaction
    undebited,              \* address -> amount + fee submitted since the last refresh and not debited
    chainBal,               \* ledger: address -> balance
    chainNonce,             \* ledger: address -> transaction count at the latest block
    pool,                   \* ledger: accepted, not yet mined transactions
    running,                \* self.running
    gen,                    \* frame of simulate_random_trading
    strat,                  \* strategy -> frame of its _run_strategy coroutine
    multi,                  \* position of simulate_multi_strategy
    mon,                    \* frame of the monitor thread's get_performance_stats call
    pace,                   \* a generator loop seen against the clock
    accounts,               \* self.accounts: the addresses loaded, by index
    private_keys,           \* self.private_keys: the signing keys, by index
    probe                   \* the last direct call of a method of the simulator and what it did

vars == <<balance_cache, balance_age, stats, on_transaction_complete, ops,
          current, issueLog, sendLog, undebited, chainBal, chainNonce, pool,
          running, gen, strat, multi, mon, pace, accounts, private_keys, probe>>

runVars == <<running, gen, strat, multi>>
apiVars == <<accounts, private_keys, probe>>
extVars == <<runVars, mon, pace, apiVars>>

ledgerVars == <<chainBal, chainNonce, pool>>
logVars == <<issueLog, sendLog>>

\* Locals of a call (from_idx .. total_cost, status) and what it has done so
\* far: how often it called the executor and the observer, how often it was
\* counted, how it ended, what it is about to return, and whether an index
\* it was called with lies outside 0 .. len(accounts) - 1.
NoOp == [pc |-> "none", from_idx |-> Nil, to_idx |-> Nil, amount_eth |-> Nil,
         min_amount |-> Nil, safe_amount |-> Nil, safe_balance |-> Nil,
         gas_price |-> Nil, nonce |-> Nil, balance |-> Nil, total_cost |-> Nil,
         status |-> "none", afford |-> "none", sends |-> 0, hooks |-> 0,
         counted |-> 0, failed |-> 0, error |-> "none", result |-> "none",
         out_of_range |-> FALSE]

\* The locals are gone when the call returns.
Returned == [NoOp EXCEPT !.pc = "done"]

\* Frame of simulate_random_trading: its position, its arguments, the
\* counter failed_attempts, the sender it chose and the number of tasks it
\* has created.
NoGen == [pc |-> "idle", min_amount |-> Nil, max_amount |-> Nil,
          failed_attempts |-> 0, from_idx |-> Nil, issued |-> 0]

\* The strategies added with add_strategy, and the TradingStrategy of each
\* (amounts in gwei).
StrategyIds == {"small", "solo"}
Strategy(s) ==
    IF s = "solo"
    THEN [min_amount |-> 1000000, max_amount |-> 1000000, account_pool |-> {0}]
    ELSE [min_amount |-> 1000000, max_amount |-> 1000000, account_pool |-> {0, 1}]

\* Frame of a _run_strategy coroutine: its position, the number of calls of
\* send_transaction_async it has made and the call it is awaiting.
NoStrat == [pc |-> "idle", issued |-> 0, call |-> Nil]

\* The monitor thread inside get_performance_stats: the counters it has
\* read so far for the dict it is building.
NoMon == [pc |-> "sleep", total_transactions |-> Nil,
          successful_transactions |-> Nil, failed_transactions |-> Nil]

\* No generator loop is being timed.
NoPace == [pc |-> "idle", mode |-> "none", now |-> 0, wake |-> 0, emitted |-> <<>>]

\* An address is the position of the account in the node's list.  A signing
\* key is <<"default", k>>, the k-th literal of default_private_keys, or
\* <<"offset", i>>, the number int(default_private_keys[0], 16) + i.
SourceAccounts(m) == [k \in 1 .. m |-> k - 1]

\* The address a key signs for: the literals are the keys of the node's first
\* accounts; key 0 plus i, i > 0, is the key of no account of the node.
NoAccount == 0 - 2
AddressOf(key) ==
    IF key[1] = "default" THEN key[2]
    ELSE IF key[2] = 0 THEN 0 ELSE NoAccount

\* Lines 56 and 74-78: self.accounts and self.private_keys for the list the
\* node reported.
AccountsFrom(src) == SubSeq(src, 1, Min(Len(src), AccountCap))
KeysFor(n) ==
    [k \in 1 .. Max(NumDefaultKeys, n) |->
        IF k <= NumDefaultKeys THEN <<"default", k - 1>> ELSE <<"offset", k - 1>>]

\* seq[idx] of Python: a negative index counts from the end, an index
\* beyond either end raises IndexError.
IndexError == 0 - 3
Lookup(seq, idx) ==
    IF 0 <= idx /\ idx < Len(seq) THEN seq[idx + 1]
    ELSE IF 0 - Len(seq) <= idx /\ idx < 0 THEN seq[Len(seq) + idx + 1]
    ELSE IndexError

\* No method has been called directly.
NoProbe == [call |-> "none", idx |-> Nil, amount |-> Nil, failed |-> {},
            returned |-> Nil, raised |-> "none", printed |-> 0,
            cache_before |-> <<>>, age_before |-> <<>>,
            cache_after |-> <<>>, age_after |-> <<>>]

\* ------------------------------------------------------------ the cache
\* get_balance refreshes when the entry is absent or older than the window.
NeedsRefresh(a) == balance_age[a] = Nil \/ balance_age[a] > StaleWindow

RpcOutcomes(a) == IF NeedsRefresh(a) THEN BOOLEAN ELSE {TRUE}

CacheAfterGet(a, rpc_ok) ==
    IF NeedsRefresh(a) /\ rpc_ok
    THEN [balance_cache EXCEPT ![a] = chainBal[a]]
    ELSE balance_cache

AgeAfterGet(a, rpc_ok) ==
    IF NeedsRefresh(a) /\ rpc_ok
    THEN [balance_age EXCEPT ![a] = 0]
    ELSE balance_age

UndebitedAfterGet(a, rpc_ok) ==
    IF NeedsRefresh(a) /\ rpc_ok
    THEN [undebited EXCEPT ![a] = 0]
    ELSE undebited

get_balance(a, rpc_ok) ==
    LET c == CacheAfterGet(a, rpc_ok)[a]
    IN  IF c = Nil THEN 0 ELSE c

\* Variant: the gas reserve is not held back.
get_safe_amount_NoReserve(balance, max_amount_eth) ==
    Min(Max(0, balance), max_amount_eth)

\* get_safe_amount: min(max(0, balance - gas reserve), max_amount).
get_safe_amount(balance, max_amount_eth) ==
    Min(Max(0, balance - GasReserve), max_amount_eth)

\* Time passing: every present entry grows older; ages beyond the window
\* are all alike to the code and are kept at StaleWindow + 1.
AgeCap == StaleWindow + 1
Older(d) == [a \in Accounts |->
               IF balance_age[a] = Nil THEN Nil ELSE Min(balance_age[a] + d, AgeCap)]

\* ------------------------------------------------------------------ init
Init ==
    /\ balance_cache = [a \in Accounts |-> Nil]
    /\ balance_age = [a \in Accounts |-> Nil]
    /\ stats = [total_transactions |-> 0, successful_transactions |-> 0,
                failed_transactions |-> 0, insufficient_funds |-> 0,
                total_gas_used |-> 0]
    /\ on_transaction_complete = "none"
    /\ ops = [i \in OpIds |-> NoOp]
    /\ current = NoTask
    /\ issueLog = [a \in Accounts |-> <<>>]
    /\ sendLog = [a \in Accounts |-> <<>>]
    /\ undebited = [a \in Accounts |-> 0]
    /\ chainBal = [a \in Accounts |-> InitialBalance(a)]
    /\ chainNonce = [a \in Accounts |-> 0]
    /\ pool = {}
    /\ running = FALSE
    /\ gen = NoGen
    /\ strat = [s \in StrategyIds |-> NoStrat]
    /\ multi = "idle"
    /\ mon = NoMon
    /\ pace = NoPace
    /\ accounts = AccountsFrom(SourceAccounts(NumAccounts))
    /\ private_keys = KeysFor(NumAccounts)
    /\ probe = NoProbe

\* ------------------------------------------------------------- helpers
Bump(field) == [stats EXCEPT ![field] = @ + 1]

\* Variant: the coroutine yields to the event loop between its statements.
LoopFreeAwait(i) == TRUE

\* The coroutine send_transaction_async contains no await: once the event
\* loop has started it, it runs to its return before any other coroutine
\* (a queued task or a generator) runs.
LoopFree(i) == current = NoTask

\* Variant: a timed out transaction is sent again.
RaisedRetry(i, kind) ==
    IF kind = "timeout"
    THEN [ops EXCEPT ![i].pc = "send"]
    ELSE [ops EXCEPT ![i].pc = "except", ![i].error = kind]

\* Entering the except clause of send_transaction_async.
Raised(i, kind) == [ops EXCEPT ![i].pc = "except", ![i].error = kind]

\* The ledger takes a raw transaction when its nonce is not used up, the
\* sender can pay for it and no pending transaction holds the same slot.
LedgerAccepts(o) ==
    /\ o.nonce >= chainNonce[o.from_idx]
    /\ chainBal[o.from_idx] >= o.total_cost
    /\ \A tx \in pool : ~(tx.from = o.from_idx /\ tx.nonce = o.nonce)

\* The call is between send_raw_transaction and the receipt (or the timeout)
\* of its transaction.
AwaitingSettlement(i) == ops[i].pc = "wait"

\* The intent the generators would hand over next.
NextIntent(j) == ops[j].pc = "none" /\ \A k \in OpIds : k < j => ops[k].pc # "none"

\* ------------------------------------------------------------- actions
\* A generator hands an intent to the dispatcher:
\* asyncio.create_task(self.send_transaction_async(from_idx, to_idx, amount)).
\* The generator then sleeps (or awaits the call), so the task it created
\* starts before the generator creates another.
Dispatch(i, f, t, am) ==
    /\ ops[i].pc = "none"
    /\ \A j \in OpIds : j < i => ops[j].pc \notin {"none", "queued"}
    /\ LoopFree(i)
    /\ f # t
    /\ ops' = [ops EXCEPT ![i].pc = "queued", ![i].from_idx = f, ![i].to_idx = t,
                          ![i].amount_eth = am[1], ![i].min_amount = am[2]]
    /\ UNCHANGED <<balance_cache, balance_age, stats, on_transaction_complete,
                   current, logVars, undebited, ledgerVars>>
    /\ UNCHANGED extVars

\* simulator.on_transaction_complete = callback, before the run starts.
RegisterObserver ==
    /\ on_transaction_complete = "none"
    /\ \A i \in OpIds : ops[i].pc = "none"
    /\ on_transaction_complete' = "set"
    /\ UNCHANGED <<balance_cache, balance_age, stats, ops, current, logVars,
                   undebited, ledgerVars>>
    /\ UNCHANGED extVars

\* Lines 136-147: the event loop starts the task (tasks start in the order
\* of their creation) or the awaiting coroutine enters the call; look the
\* accounts up, resolve the safe amount.  An address being the position of
\* its account, the frame keeps the addresses found in from_idx and to_idx.
Resolve(i) ==
    /\ ops[i].pc = "queued"
    /\ \/ current = i
       \/ /\ LoopFree(i)
          /\ \A j \in OpIds : j < i => ops[j].pc # "queued"
    /\ current' = i
    /\ LET from_address == Lookup(accounts, ops[i].from_idx)
           to_address == Lookup(accounts, ops[i].to_idx)
           outside == \/ ops[i].from_idx \notin 0 .. (Len(accounts) - 1)
                      \/ ops[i].to_idx \notin 0 .. (Len(accounts) - 1)
           found == [ops[i] EXCEPT !.from_idx = from_address, !.to_idx = to_address,
                                   !.out_of_range = outside]
       IN  IF from_address = IndexError \/ to_address = IndexError
           THEN /\ ops' = [ops EXCEPT ![i] = [ops[i] EXCEPT !.pc = "except",
                                                           !.error = "index",
                                                           !.out_of_range = TRUE]]
                /\ UNCHANGED <<balance_cache, balance_age, undebited, stats>>
           ELSE \E rpc_ok \in RpcOutcomes(from_address) :
                  LET a == from_address
                      bal == get_balance(a, rpc_ok)
                      safe == get_safe_amount(bal, ops[i].amount_eth)
                  IN  /\ balance_cache' = CacheAfterGet(a, rpc_ok)
                      /\ balance_age' = AgeAfterGet(a, rpc_ok)
                      /\ undebited' = UndebitedAfterGet(a, rpc_ok)
                      /\ IF safe <= 0
                         THEN /\ stats' = Bump("insufficient_funds")
                              /\ ops' = [ops EXCEPT ![i] =
                                           [found EXCEPT !.pc = "except",
                                                         !.error = "insufficient",
                                                         !.safe_amount = safe,
                                                         !.safe_balance = bal]]
                         ELSE /\ stats' = stats
                              /\ ops' = [ops EXCEPT ![i] =
                                           [found EXCEPT !.pc = "gas",
                                                         !.safe_amount = safe,
                                                         !.safe_balance = bal]]
    /\ UNCHANGED <<on_transaction_complete, logVars, ledgerVars>>
    /\ UNCHANGED extVars

\* Lines 149-153: the ledger's gas price, 2 gwei when the query fails.
GasPrice(i) ==
    /\ ops[i].pc = "gas"
    /\ \E gp \in LedgerGasPrices \cup {DefaultGasPrice} :
         ops' = [ops EXCEPT ![i].pc = "nonce", ![i].gas_price = gp]
    /\ UNCHANGED <<balance_cache, balance_age, stats, on_transaction_complete,
                   current, logVars, undebited, ledgerVars>>
    /\ UNCHANGED extVars

\* Line 156: nonce = get_transaction_count(from_address), or the query raises.
Nonce(i) ==
    /\ ops[i].pc = "nonce"
    /\ \/ /\ ops' = [ops EXCEPT ![i].pc = "check", ![i].nonce = chainNonce[ops[i].from_idx]]
          /\ issueLog' = [issueLog EXCEPT ![ops[i].from_idx] = Append(@, i)]
       \/ /\ ops' = Raised(i, "rpc")
          /\ issueLog' = issueLog
    /\ UNCHANGED <<balance_cache, balance_age, stats, on_transaction_complete,
                   current, sendLog, undebited, ledgerVars>>
    /\ UNCHANGED extVars

\* Variant: the failed check does not raise.
CheckBranchNoRaise(balance, total_cost) == "send"

\* Lines 172-174: raise when the balance does not cover amount and fee.
CheckBranch(balance, total_cost) == IF balance < total_cost THEN "except" ELSE "send"

\* Variant: the final check rejects without counting the rejection.
CheckUncounted(i) ==
    /\ ops[i].pc = "check"
    /\ \E rpc_ok \in RpcOutcomes(ops[i].from_idx) :
         LET a == ops[i].from_idx
             bal == get_balance(a, rpc_ok)
             cost == ops[i].safe_amount + Gas * ops[i].gas_price
             afford == IF cost <= bal THEN "yes" ELSE "no"
         IN  /\ balance_cache' = CacheAfterGet(a, rpc_ok)
             /\ balance_age' = AgeAfterGet(a, rpc_ok)
             /\ undebited' = UndebitedAfterGet(a, rpc_ok)
             /\ stats' = stats
             /\ IF CheckBranch(bal, cost) = "except"
                THEN ops' = [ops EXCEPT ![i].pc = "except", ![i].error = "insufficient",
                                        ![i].balance = bal, ![i].total_cost = cost,
                                        ![i].afford = afford]
                ELSE ops' = [ops EXCEPT ![i].pc = "send", ![i].balance = bal,
                                        ![i].total_cost = cost, ![i].afford = afford]
    /\ UNCHANGED <<on_transaction_complete, current, logVars, ledgerVars>>
    /\ UNCHANGED extVars

\* Lines 168-174: the final affordability check.
Check(i) ==
    /\ ops[i].pc = "check"
    /\ \E rpc_ok \in RpcOutcomes(ops[i].from_idx) :
         LET a == ops[i].from_idx
             bal == get_balance(a, rpc_ok)
             cost == ops[i].safe_amount + Gas * ops[i].gas_price
             afford == IF cost <= bal THEN "yes" ELSE "no"
         IN  /\ balance_cache' = CacheAfterGet(a, rpc_ok)
             /\ balance_age' = AgeAfterGet(a, rpc_ok)
             /\ undebited' = UndebitedAfterGet(a, rpc_ok)
             /\ IF CheckBranch(bal, cost) = "except"
                THEN /\ stats' = Bump("insufficient_funds")
                     /\ ops' = [ops EXCEPT ![i].pc = "except", ![i].error = "insufficient",
                                           ![i].balance = bal, ![i].total_cost = cost,
                                           ![i].afford = afford]
                ELSE /\ stats' = stats
                     /\ ops' = [ops EXCEPT ![i].pc = "send", ![i].balance = bal,
                                           ![i].total_cost = cost, ![i].afford = afford]
    /\ UNCHANGED <<on_transaction_complete, current, logVars, ledgerVars>>
    /\ UNCHANGED extVars

\* Lines 176-180: sign and send_raw_transaction; the ledger takes the
\* transaction into its pool or the call raises.
Send(i) ==
    /\ ops[i].pc = "send"
    /\ \/ /\ LedgerAccepts(ops[i])
          /\ sendLog' = [sendLog EXCEPT ![ops[i].from_idx] = Append(@, <<i, ops[i].nonce, TRUE>>)]
          /\ pool' = pool \cup {[id |-> i, from |-> ops[i].from_idx, to |-> ops[i].to_idx,
                                 value |-> ops[i].safe_amount,
                                 fee |-> Gas * ops[i].gas_price, nonce |-> ops[i].nonce]}
          /\ ops' = [ops EXCEPT ![i].pc = "wait", ![i].sends = @ + 1]
          /\ undebited' = [undebited EXCEPT ![ops[i].from_idx] = @ + ops[i].total_cost]
       \/ /\ pool' = pool
          /\ sendLog' = [sendLog EXCEPT ![ops[i].from_idx] = Append(@, <<i, ops[i].nonce, FALSE>>)]
          /\ ops' = [ops EXCEPT ![i].pc = "except", ![i].error = "rejected",
                                ![i].sends = @ + 1]
          /\ undebited' = undebited
    /\ UNCHANGED <<balance_cache, balance_age, stats, on_transaction_complete,
                   current, issueLog, chainBal, chainNonce>>
    /\ UNCHANGED extVars

\* Line 183: wait_for_transaction_receipt(tx_hash, timeout=30) returns the receipt.
Receipt(i) ==
    /\ ops[i].pc = "wait"
    /\ ops[i].status # "none"
    /\ ops' = [ops EXCEPT ![i].pc = "debit"]
    /\ UNCHANGED <<balance_cache, balance_age, stats, on_transaction_complete,
                   current, logVars, undebited, ledgerVars>>
    /\ UNCHANGED extVars

\* Line 183: no receipt within 30 seconds.
Timeout(i) ==
    /\ ops[i].pc = "wait"
    /\ ops[i].status = "none"
    /\ ops' = Raised(i, "timeout")
    /\ balance_age' = Older(ReceiptTimeout)
    /\ UNCHANGED <<balance_cache, stats, on_transaction_complete, current,
                   logVars, undebited, ledgerVars>>
    /\ UNCHANGED extVars

\* Line 183: the receipt query itself raises.
WaitError(i) ==
    /\ ops[i].pc = "wait"
    /\ ops' = Raised(i, "rpc")
    /\ UNCHANGED <<balance_cache, balance_age, stats, on_transaction_complete,
                   current, logVars, undebited, ledgerVars>>
    /\ UNCHANGED extVars

\* Variant: the debit of the cache entry is left for later.
DebitSkipped(i) ==
    /\ ops[i].pc = "debit"
    /\ ops' = [ops EXCEPT ![i].pc = "count"]
    /\ UNCHANGED <<balance_cache, balance_age, undebited, stats,
                   on_transaction_complete, current, logVars, ledgerVars>>
    /\ UNCHANGED extVars

\* Variant: the debit also credits the recipient's cache entry.
DebitAndCredit(i) ==
    /\ ops[i].pc = "debit"
    /\ balance_cache' = [balance_cache EXCEPT
                           ![ops[i].from_idx] = ops[i].balance - ops[i].total_cost,
                           ![ops[i].to_idx] = Max(0, @) + ops[i].safe_amount]
    /\ balance_age' = [balance_age EXCEPT ![ops[i].from_idx] = 0, ![ops[i].to_idx] = 0]
    /\ undebited' = [undebited EXCEPT ![ops[i].from_idx] = Max(0, @ - ops[i].total_cost)]
    /\ ops' = [ops EXCEPT ![i].pc = "count"]
    /\ UNCHANGED <<stats, on_transaction_complete, current, logVars, ledgerVars>>
    /\ UNCHANGED extVars

\* Lines 185-187: the optimistic debit of the sender's cache entry.
Debit(i) ==
    /\ ops[i].pc = "debit"
    /\ balance_cache' = [balance_cache EXCEPT ![ops[i].from_idx] = ops[i].balance - ops[i].total_cost]
    /\ balance_age' = [balance_age EXCEPT ![ops[i].from_idx] = 0]
    /\ undebited' = [undebited EXCEPT ![ops[i].from_idx] = Max(0, @ - ops[i].total_cost)]
    /\ ops' = [ops EXCEPT ![i].pc = "count"]
    /\ UNCHANGED <<stats, on_transaction_complete, current, logVars, ledgerVars>>
    /\ UNCHANGED extVars

\* Variant: a call that got its receipt is not counted.
CountSkipped(i) ==
    /\ ops[i].pc = "count"
    /\ ops' = [ops EXCEPT ![i].pc = "status"]
    /\ UNCHANGED <<balance_cache, balance_age, stats, on_transaction_complete, current,
                   logVars, undebited, ledgerVars>>
    /\ UNCHANGED extVars

\* Line 201.
Count(i) ==
    /\ ops[i].pc = "count"
    /\ stats' = Bump("total_transactions")
    /\ ops' = [ops EXCEPT ![i].pc = "status", ![i].counted = @ + 1]
    /\ UNCHANGED <<balance_cache, balance_age, on_transaction_complete, current,
                   logVars, undebited, ledgerVars>>
    /\ UNCHANGED extVars

\* Lines 202-206.
Status(i) ==
    /\ ops[i].pc = "status"
    /\ IF ops[i].status = "ok"
       THEN /\ stats' = [stats EXCEPT !.successful_transactions = @ + 1,
                                      !.total_gas_used = @ + Gas]
            /\ ops' = [ops EXCEPT ![i].pc = "hook"]
       ELSE /\ stats' = [stats EXCEPT !.failed_transactions = @ + 1,
                                      !.total_gas_used = @ + Gas]
            /\ ops' = [ops EXCEPT ![i].pc = "hook", ![i].failed = @ + 1]
    /\ UNCHANGED <<balance_cache, balance_age, on_transaction_complete, current,
                   logVars, undebited, ledgerVars>>
    /\ UNCHANGED extVars

\* Lines 208-212: call the observer if one is registered; the call is about
\* to return the TransactionResult built on lines 189-198.
Hook(i) ==
    /\ ops[i].pc = "hook"
    /\ IF on_transaction_complete = "none"
       THEN ops' = [ops EXCEPT ![i].pc = "return", ![i].result = "TransactionResult"]
       ELSE \E outcome \in ObserverOutcomes :
              IF outcome = "returns"
              THEN ops' = [ops EXCEPT ![i].pc = "return", ![i].hooks = @ + 1,
                                      ![i].result = "TransactionResult"]
              ELSE ops' = [ops EXCEPT ![i].pc = "except", ![i].error = "hook",
                                      ![i].hooks = @ + 1]
    /\ UNCHANGED <<balance_cache, balance_age, stats, on_transaction_complete,
                   current, logVars, undebited, ledgerVars>>
    /\ UNCHANGED extVars

\* Variant: the exception is not caught and leaves the coroutine.
ExceptReraise(i) ==
    /\ ops[i].pc = "except"
    /\ ops' = [ops EXCEPT ![i] = [Returned EXCEPT !.pc = "raised"]]
    /\ current' = NoTask
    /\ UNCHANGED <<balance_cache, balance_age, stats, on_transaction_complete,
                   logVars, undebited, ledgerVars>>
    /\ UNCHANGED extVars

\* Lines 214-216.
Except(i) ==
    /\ ops[i].pc = "except"
    /\ stats' = Bump("total_transactions")
    /\ ops' = [ops EXCEPT ![i].pc = "except2", ![i].counted = @ + 1]
    /\ UNCHANGED <<balance_cache, balance_age, on_transaction_complete, current,
                   logVars, undebited, ledgerVars>>
    /\ UNCHANGED extVars

\* Variant: the except clause does not count the failure.
ExceptReturnNoCount(i) ==
    /\ ops[i].pc = "except2"
    /\ ops' = [ops EXCEPT ![i].pc = "return", ![i].result = "None"]
    /\ UNCHANGED <<balance_cache, balance_age, stats, on_transaction_complete, current,
                   logVars, undebited, ledgerVars>>
    /\ UNCHANGED extVars

\* Lines 217-218: count the failure; the call is about to return None.
ExceptReturn(i) ==
    /\ ops[i].pc = "except2"
    /\ stats' = Bump("failed_transactions")
    /\ ops' = [ops EXCEPT ![i].pc = "return", ![i].failed = @ + 1,
                          ![i].result = "None"]
    /\ UNCHANGED <<balance_cache, balance_age, on_transaction_complete, current,
                   logVars, undebited, ledgerVars>>
    /\ UNCHANGED extVars

\* Lines 212 and 218: the call returns, its locals are gone and the event
\* loop is free again.
Return(i) ==
    /\ ops[i].pc = "return"
    /\ ops' = [ops EXCEPT ![i] = Returned]
    /\ current' = NoTask
    /\ UNCHANGED <<balance_cache, balance_age, stats, on_transaction_complete,
                   logVars, undebited, ledgerVars>>
    /\ UNCHANGED extVars

\* The ledger mines a pending transaction: status 1 moves the value and
\* charges the fee, status 0 charges the fee only.  The receipt reaches the
\* call that is waiting for it, if it still is.
Mine(j, st) ==
    /\ \E tx \in pool :
         /\ tx.id = j
         /\ tx.nonce = chainNonce[tx.from]
         /\ chainBal[tx.from] >= tx.value + tx.fee
         /\ pool' = pool \ {tx}
         /\ ops' = IF ops[j].pc = "wait" THEN [ops EXCEPT ![j].status = st] ELSE ops
         /\ chainNonce' = [chainNonce EXCEPT ![tx.from] = @ + 1]
         /\ chainBal' = IF st = "ok"
                        THEN [chainBal EXCEPT ![tx.from] = @ - (tx.value + tx.fee),
                                              ![tx.to] = @ + tx.value]
                        ELSE [chainBal EXCEPT ![tx.from] = @ - tx.fee]
    /\ UNCHANGED <<balance_cache, balance_age, stats, on_transaction_complete,
                   current, logVars, undebited>>
    /\ UNCHANGED extVars

\* Time passes: the entries that were fresh become stale.  The code reads the clock in get_balance only, so it is
\* enough to let time pass where the event loop is idle, before the final
\* check and during the wait for the receipt.
Tick ==
    /\ \A i \in OpIds : current = i => ops[i].pc \in {"check", "wait"}
    /\ \E a \in Accounts : balance_age[a] # Nil /\ balance_age[a] < AgeCap
    /\ balance_age' = Older(StaleWindow + 1)
    /\ UNCHANGED <<balance_cache, stats, on_transaction_complete, ops, current,
                   logVars, undebited, ledgerVars>>
    /\ UNCHANGED extVars

\* ------------------------------------------------------- the generators
\* update_balance_cache: every account whose query succeeds is refreshed.
CacheAfterUpdate(okset) ==
    [a \in Accounts |-> IF a \in okset THEN chainBal[a] ELSE balance_cache[a]]

AgeAfterUpdate(okset) ==
    [a \in Accounts |-> IF a \in okset THEN 0 ELSE balance_age[a]]

UndebitedAfterUpdate(okset) ==
    [a \in Accounts |-> IF a \in okset THEN 0 ELSE undebited[a]]

\* Tasks of simulate_random_trading that are not done.
TasksPending == {i \in OpIds : ops[i].pc \notin {"none", "done", "raised"}}

\* time.time() < end_time when a loop condition is evaluated again: the
\* duration may have elapsed, and has elapsed once the intents or the
\* rounds without sender of the run are used up.
InTime(rounds) ==
    IF (\E j \in OpIds : NextIntent(j)) /\ rounds < MaxFailedRounds
    THEN BOOLEAN ELSE {FALSE}

\* Line 236: the frame after the loop condition of simulate_random_trading.
LoopCondition(frame, in_time) ==
    IF in_time /\ running /\ frame.failed_attempts < max_failed_attempts
    THEN [frame EXCEPT !.pc = "select"]
    ELSE [frame EXCEPT !.pc = "gather"]

\* A coroutine that goes on into its loop body keeps the event loop.
HoldsLoop(frame) == IF frame.pc \in {"select", "call"} THEN GenTask ELSE NoTask

\* Lines 226-236 of simulate_random_trading: the first loop condition
\* follows the computation of end_time at once.
RunStart(args) ==
    /\ gen.pc = "idle"
    /\ current = NoTask
    /\ running' = TRUE
    /\ gen' = [gen EXCEPT !.pc = "select", !.min_amount = args[1], !.max_amount = args[2]]
    /\ current' = GenTask
    /\ UNCHANGED <<balance_cache, balance_age, stats, on_transaction_complete, ops,
                   logVars, undebited, ledgerVars, strat, multi, mon, pace>>
    /\ UNCHANGED apiVars

\* Lines 238-254: up to 10 random candidates are tried, each with
\* get_safe_amount, until one can send min_amount.  tried are the candidates
\* drawn, okset those whose stale entry the ledger query refreshes.
Select(tried, okset) ==
    /\ gen.pc = "select"
    /\ tried # {}
    /\ Cardinality(tried) <= MaxCandidateAttempts
    /\ okset \subseteq {a \in tried : NeedsRefresh(a)}
    /\ balance_cache' = CacheAfterUpdate(okset)
    /\ balance_age' = AgeAfterUpdate(okset)
    /\ undebited' = UndebitedAfterUpdate(okset)
    /\ LET cached(a) == IF CacheAfterUpdate(okset)[a] = Nil THEN 0
                        ELSE CacheAfterUpdate(okset)[a]
           found == {a \in tried :
                       get_safe_amount(cached(a), gen.max_amount) >= gen.min_amount}
       IN  \/ /\ \E c \in tried : found = {c} /\ gen' = [gen EXCEPT !.pc = "create", !.from_idx = c]
              /\ current' = current
           \/ /\ found = {}
              /\ gen' = [gen EXCEPT !.pc = "sleep_fail", !.failed_attempts = @ + 1]
              /\ current' = NoTask
    /\ UNCHANGED <<stats, on_transaction_complete, ops, logVars, ledgerVars,
                   running, strat, multi, mon, pace>>
    /\ UNCHANGED apiVars

\* Lines 253-254 and 236: the sleep of a round without sender ends and the
\* loop condition is evaluated, time.time() < end_time having one of the
\* values in times.
WakeFailIn(times) ==
    /\ gen.pc = "sleep_fail"
    /\ current = NoTask
    /\ \E in_time \in times :
         /\ gen' = LoopCondition(gen, in_time)
         /\ current' = HoldsLoop(LoopCondition(gen, in_time))
    /\ UNCHANGED <<balance_cache, balance_age, stats, on_transaction_complete, ops,
                   logVars, undebited, ledgerVars, running, strat, multi, mon, pace>>
    /\ UNCHANGED apiVars

WakeFail == WakeFailIn(InTime(gen.failed_attempts))

\* The same in a run whose duration is longer than max_failed_attempts
\* intervals (the defaults: 600 intervals), so that it has not elapsed.
WakeFailInTime == WakeFailIn({TRUE})

\* Lines 256-275: choose the recipient and the amount, create the task and
\* go to sleep.
Create(i, t) ==
    /\ gen.pc = "create"
    /\ NextIntent(i)
    /\ t # gen.from_idx
    /\ \E rpc_ok \in RpcOutcomes(gen.from_idx) :
         LET f == gen.from_idx
             safe_max_amount == get_safe_amount(get_balance(f, rpc_ok), gen.max_amount)
         IN  /\ balance_cache' = CacheAfterGet(f, rpc_ok)
             /\ balance_age' = AgeAfterGet(f, rpc_ok)
             /\ undebited' = UndebitedAfterGet(f, rpc_ok)
             /\ \E amount \in {gen.min_amount, Min(safe_max_amount, gen.max_amount)} :
                  ops' = [ops EXCEPT ![i].pc = "queued", ![i].from_idx = f,
                                     ![i].to_idx = t, ![i].amount_eth = amount,
                                     ![i].min_amount = gen.min_amount]
    /\ gen' = [gen EXCEPT !.pc = "sleep", !.failed_attempts = 0, !.from_idx = Nil,
                          !.issued = @ + 1]
    /\ current' = NoTask
    /\ UNCHANGED <<stats, on_transaction_complete, logVars, ledgerVars, running,
                   strat, multi, mon, pace>>
    /\ UNCHANGED apiVars

\* Lines 275-282 and 236: the sleep ends after the task that was created
\* before it has run; the done tasks are dropped and, the list being a
\* multiple of 50 long, update_balance_cache runs; then the loop condition.
Wake ==
    /\ gen.pc = "sleep"
    /\ current = NoTask
    /\ \A i \in OpIds : ops[i].pc # "queued"
    /\ IF Cardinality(TasksPending) % 50 = 0
       THEN \E okset \in SUBSET Accounts :
              /\ balance_cache' = CacheAfterUpdate(okset)
              /\ balance_age' = AgeAfterUpdate(okset)
              /\ undebited' = UndebitedAfterUpdate(okset)
       ELSE UNCHANGED <<balance_cache, balance_age, undebited>>
    /\ \E in_time \in InTime(gen.failed_attempts) :
         /\ gen' = LoopCondition(gen, in_time)
         /\ current' = HoldsLoop(LoopCondition(gen, in_time))
    /\ UNCHANGED <<stats, on_transaction_complete, ops, logVars, ledgerVars,
                   running, strat, multi, mon, pace>>
    /\ UNCHANGED apiVars

\* Lines 284-288: gather the tasks that are left, then running = False.
RunReturn ==
    /\ gen.pc = "gather"
    /\ current = NoTask
    /\ TasksPending = {}
    /\ running' = FALSE
    /\ gen' = [gen EXCEPT !.pc = "returned"]
    /\ UNCHANGED <<balance_cache, balance_age, stats, on_transaction_complete, ops,
                   current, logVars, undebited, ledgerVars, strat, multi, mon, pace>>
    /\ UNCHANGED apiVars

\* stop(), lines 306-308, called from another thread or a signal handler
\* while self.running is set.
Stop ==
    /\ running
    /\ running' = FALSE
    /\ UNCHANGED <<balance_cache, balance_age, stats, on_transaction_complete, ops,
                   current, logVars, undebited, ledgerVars, gen, strat, multi, mon,
                   pace>>
    /\ UNCHANGED apiVars

\* simulate_multi_strategy, lines 25-33, when the strategies in added were
\* added with add_strategy: one task per strategy, then gather.
StartMultiWith(added) ==
    /\ multi = "idle"
    /\ current = NoTask
    /\ multi' = "gather"
    /\ strat' = [s \in StrategyIds |->
                   IF s \in added THEN [strat[s] EXCEPT !.pc = "created"] ELSE strat[s]]
    /\ UNCHANGED <<balance_cache, balance_age, stats, on_transaction_complete, ops,
                   current, logVars, undebited, ledgerVars, running, gen, mon, pace>>
    /\ UNCHANGED apiVars

StartMulti == StartMultiWith({"small"})

\* Line 40: the frame after the loop condition of _run_strategy.
StrategyCondition(frame, in_time) ==
    IF in_time /\ running
    THEN [frame EXCEPT !.pc = "call", !.call = Nil]
    ELSE [frame EXCEPT !.pc = "returned", !.call = Nil]

\* _run_strategy, lines 37-40: the task starts; its first loop condition
\* follows the computation of end_time at once.
StratStart(s) ==
    /\ strat[s].pc = "created"
    /\ current = NoTask
    /\ strat' = [strat EXCEPT ![s] = StrategyCondition(strat[s], TRUE)]
    /\ current' = HoldsLoop(StrategyCondition(strat[s], TRUE))
    /\ UNCHANGED <<balance_cache, balance_age, stats, on_transaction_complete, ops,
                   logVars, undebited, ledgerVars, running, gen, multi, mon, pace>>
    /\ UNCHANGED apiVars

\* _run_strategy, lines 41-49: draw the intent and enter
\* send_transaction_async, which runs inside the awaiting coroutine.
StratCall(s, i, f, t, amount) ==
    /\ strat[s].pc = "call"
    /\ NextIntent(i)
    /\ f \in Strategy(s).account_pool
    /\ t \in Strategy(s).account_pool
    /\ f # t
    /\ amount \in {Strategy(s).min_amount, Strategy(s).max_amount}
    /\ ops' = [ops EXCEPT ![i].pc = "queued", ![i].from_idx = f, ![i].to_idx = t,
                          ![i].amount_eth = amount,
                          ![i].min_amount = Strategy(s).min_amount]
    /\ strat' = [strat EXCEPT ![s].pc = "sleep", ![s].issued = @ + 1, ![s].call = i]
    /\ current' = i
    /\ UNCHANGED <<balance_cache, balance_age, stats, on_transaction_complete,
                   logVars, undebited, ledgerVars, running, gen, multi, mon, pace>>
    /\ UNCHANGED apiVars

\* _run_strategy, lines 49-50 and 40: the call has returned, the sleep ends
\* and the loop condition is evaluated; an exception leaving the call ends
\* the coroutine instead.
StratWake(s) ==
    /\ strat[s].pc = "sleep"
    /\ current = NoTask
    /\ IF ops[strat[s].call].pc = "raised"
       THEN /\ strat' = [strat EXCEPT ![s].pc = "aborted", ![s].call = Nil]
            /\ current' = current
       ELSE \E in_time \in InTime(0) :
              /\ strat' = [strat EXCEPT ![s] = StrategyCondition(strat[s], in_time)]
              /\ current' = HoldsLoop(StrategyCondition(strat[s], in_time))
    /\ UNCHANGED <<balance_cache, balance_age, stats, on_transaction_complete, ops,
                   logVars, undebited, ledgerVars, running, gen, multi, mon, pace>>
    /\ UNCHANGED apiVars

\* simulate_multi_strategy, line 33: gather returns when every coroutine
\* has returned and raises when one has raised.
MultiReturn ==
    /\ multi = "gather"
    /\ current = NoTask
    /\ \/ /\ \A s \in StrategyIds : strat[s].pc \in {"idle", "returned"}
          /\ multi' = "returned"
       \/ /\ \E s \in StrategyIds : strat[s].pc = "aborted"
          /\ multi' = "aborted"
    /\ UNCHANGED <<balance_cache, balance_age, stats, on_transaction_complete, ops,
                   current, logVars, undebited, ledgerVars, running, gen, strat,
                   mon, pace>>
    /\ UNCHANGED apiVars

Next ==
    \/ \E i \in OpIds, f \in Accounts, t \in Accounts, am \in IntentAmounts : Dispatch(i, f, t, am)
    \/ RegisterObserver
    \/ \E i \in OpIds : Resolve(i)
    \/ \E i \in OpIds : GasPrice(i)
    \/ \E i \in OpIds : Nonce(i)
    \/ \E i \in OpIds : Check(i)
    \/ \E i \in OpIds : Send(i)
    \/ \E i \in OpIds : Receipt(i)
    \/ \E i \in OpIds : Timeout(i)
    \/ \E i \in OpIds : WaitError(i)
    \/ \E i \in OpIds : Debit(i)
    \/ \E i \in OpIds : Count(i)
    \/ \E i \in OpIds : Status(i)
    \/ \E i \in OpIds : Hook(i)
    \/ \E i \in OpIds : Except(i)
    \/ \E i \in OpIds : ExceptReturn(i)
    \/ \E i \in OpIds : Return(i)
    \/ \E j \in OpIds, st \in {"ok", "fail"} : Mine(j, st)
    \/ Tick

Spec == Init /\ [][Next]_vars

\* The dispatcher driven by a simulate_random_trading run, which another
\* thread may stop.
NextRun ==
    \/ \E args \in RandomArgs : RunStart(args)
    \/ \E tried \in SUBSET Accounts, okset \in SUBSET Accounts : Select(tried, okset)
    \/ WakeFail
    \/ \E i \in OpIds, t \in Accounts : Create(i, t)
    \/ Wake
    \/ RunReturn
    \/ Stop
    \/ \E i \in OpIds : Resolve(i)
    \/ \E i \in OpIds : GasPrice(i)
    \/ \E i \in OpIds : Nonce(i)
    \/ \E i \in OpIds : Check(i)
    \/ \E i \in OpIds : Send(i)
    \/ \E i \in OpIds : Receipt(i)
    \/ \E i \in OpIds : Timeout(i)
    \/ \E i \in OpIds : WaitError(i)
    \/ \E i \in OpIds : Debit(i)
    \/ \E i \in OpIds : Count(i)
    \/ \E i \in OpIds : Status(i)
    \/ \E i \in OpIds : Hook(i)
    \/ \E i \in OpIds : Except(i)
    \/ \E i \in OpIds : ExceptReturn(i)
    \/ \E i \in OpIds : Return(i)
    \/ \E j \in OpIds, st \in {"ok", "fail"} : Mine(j, st)
    \/ Tick

SpecRun == Init /\ [][NextRun]_vars

\* The dispatcher driven by simulate_multi_strategy, alone or next to a
\* simulate_random_trading run that finds no sender and so only keeps
\* self.running set.
NextMulti ==
    \/ \E args \in StarvedArgs : RunStart(args)
    \/ \E tried \in SUBSET Accounts, okset \in SUBSET Accounts : Select(tried, okset)
    \/ WakeFail
    \/ RunReturn
    \/ StartMulti
    \/ \E s \in StrategyIds : StratStart(s)
    \/ \E s \in StrategyIds, i \in OpIds, f \in Accounts, t \in Accounts :
          \E amount \in {Strategy(s).min_amount, Strategy(s).max_amount} :
             StratCall(s, i, f, t, amount)
    \/ \E s \in StrategyIds : StratWake(s)
    \/ MultiReturn
    \/ \E i \in OpIds : Resolve(i)
    \/ \E i \in OpIds : GasPrice(i)
    \/ \E i \in OpIds : Nonce(i)
    \/ \E i \in OpIds : Check(i)
    \/ \E i \in OpIds : Send(i)
    \/ \E i \in OpIds : Receipt(i)
    \/ \E i \in OpIds : Timeout(i)
    \/ \E i \in OpIds : WaitError(i)
    \/ \E i \in OpIds : Debit(i)
    \/ \E i \in OpIds : Count(i)
    \/ \E i \in OpIds : Status(i)
    \/ \E i \in OpIds : Hook(i)
    \/ \E i \in OpIds : Except(i)
    \/ \E i \in OpIds : ExceptReturn(i)
    \/ \E i \in OpIds : Return(i)
    \/ \E j \in OpIds, st \in {"ok", "fail"} : Mine(j, st)
    \/ Tick

SpecMulti == Init /\ [][NextMulti]_vars

\* ------------------------------------------------------------------ pacing
\* The clock of one generator loop: simulate_random_trading ("random") or
\* _run_strategy ("strategy").

\* Time the statements between the loop condition and the emission take:
\* the candidate selection queries balances, _run_strategy only draws
\* random numbers.
Overheads(mode) == IF mode = "random" THEN SelectionTimes ELSE {0}

\* Lines 227-230 (random) and 37-38 (strategy): start_time, interval and
\* end_time are taken.
PaceStart(mode) ==
    /\ pace.pc = "idle"
    /\ pace' = [pace EXCEPT !.pc = "loop", !.mode = mode]
    /\ UNCHANGED <<balance_cache, balance_age, stats, on_transaction_complete, ops,
                   current, logVars, undebited, ledgerVars, runVars, mon>>
    /\ UNCHANGED apiVars

\* Lines 236-275 (random): select, create the task and call
\* asyncio.sleep(interval), whose timer counts from the call.  Lines 40-49
\* (strategy): draw the intent and enter send_transaction_async.
PaceEmit(d) ==
    /\ pace.pc = "loop"
    /\ Len(pace.emitted) < MaxEmissions
    /\ d \in Overheads(pace.mode)
    /\ pace' = [pace EXCEPT !.pc = "call", !.now = @ + d,
                            !.emitted = Append(@, pace.now + d),
                            !.wake = IF pace.mode = "random"
                                     THEN pace.now + d + interval ELSE @]
    /\ UNCHANGED <<balance_cache, balance_age, stats, on_transaction_complete, ops,
                   current, logVars, undebited, ledgerVars, runVars, mon>>
    /\ UNCHANGED apiVars

\* send_transaction_async runs to its return without yielding, for l time
\* units.  Line 50 (strategy): asyncio.sleep(interval) is called after it.
PaceSettle(l) ==
    /\ pace.pc = "call"
    /\ pace' = [pace EXCEPT !.pc = "sleep", !.now = @ + l,
                            !.wake = IF pace.mode = "strategy"
                                     THEN pace.now + l + interval ELSE @]
    /\ UNCHANGED <<balance_cache, balance_age, stats, on_transaction_complete, ops,
                   current, logVars, undebited, ledgerVars, runVars, mon>>
    /\ UNCHANGED apiVars

\* The sleeping coroutine resumes as soon as the event loop is free.
PaceWakeEarly ==
    /\ pace.pc = "sleep"
    /\ pace' = [pace EXCEPT !.pc = "loop"]
    /\ UNCHANGED <<balance_cache, balance_age, stats, on_transaction_complete, ops,
                   current, logVars, undebited, ledgerVars, runVars, mon>>
    /\ UNCHANGED apiVars

\* Lines 275 and 50: the sleeping coroutine resumes once its timer is due and
\* the event loop is free.
PaceWake ==
    /\ pace.pc = "sleep"
    /\ pace' = [pace EXCEPT !.pc = "loop", !.now = Max(@, pace.wake)]
    /\ UNCHANGED <<balance_cache, balance_age, stats, on_transaction_complete, ops,
                   current, logVars, undebited, ledgerVars, runVars, mon>>
    /\ UNCHANGED apiVars

\* Lines 236 and 40: the loop condition finds the duration elapsed.
PaceReturn ==
    /\ pace.pc = "loop"
    /\ pace' = [pace EXCEPT !.pc = "returned"]
    /\ UNCHANGED <<balance_cache, balance_age, stats, on_transaction_complete, ops,
                   current, logVars, undebited, ledgerVars, runVars, mon>>
    /\ UNCHANGED apiVars

NextPace ==
    \/ \E mode \in {"random", "strategy"} : PaceStart(mode)
    \/ \E d \in SelectionTimes : PaceEmit(d)
    \/ \E l \in Latencies : PaceSettle(l)
    \/ PaceWake
    \/ PaceReturn

SpecPace == Init /\ [][NextPace]_vars

\* ----------------------------------------------------------------- monitor
\* The thread of RealtimeMonitor.start_monitoring calls
\* get_performance_stats while the event loop thread runs the calls; the
\* method holds no lock, so the threads can switch between any two of its
\* reads of self.stats.

\* Line 295: read total_transactions into the dictionary being built.
MonReadTotal ==
    /\ mon.pc = "sleep"
    /\ mon' = [mon EXCEPT !.pc = "read_successful",
                          !.total_transactions = stats.total_transactions]
    /\ UNCHANGED <<balance_cache, balance_age, stats, on_transaction_complete, ops,
                   current, logVars, undebited, ledgerVars, runVars, pace>>
    /\ UNCHANGED apiVars

\* Line 296.
MonReadSuccessful ==
    /\ mon.pc = "read_successful"
    /\ mon' = [mon EXCEPT !.pc = "read_failed",
                          !.successful_transactions = stats.successful_transactions]
    /\ UNCHANGED <<balance_cache, balance_age, stats, on_transaction_complete, ops,
                   current, logVars, undebited, ledgerVars, runVars, pace>>
    /\ UNCHANGED apiVars

\* Lines 297-304: the last counter is read and the dictionary is returned
\* to monitor_loop, which appends it to performance_history.
MonReadFailed ==
    /\ mon.pc = "read_failed"
    /\ mon' = [mon EXCEPT !.pc = "snapshot",
                          !.failed_transactions = stats.failed_transactions]
    /\ UNCHANGED <<balance_cache, balance_age, stats, on_transaction_complete, ops,
                   current, logVars, undebited, ledgerVars, runVars, pace>>
    /\ UNCHANGED apiVars

\* monitor.py line 32: time.sleep(interval) before the next snapshot.
MonSleep ==
    /\ mon.pc = "snapshot"
    /\ mon' = NoMon
    /\ UNCHANGED <<balance_cache, balance_age, stats, on_transaction_complete, ops,
                   current, logVars, undebited, ledgerVars, runVars, pace>>
    /\ UNCHANGED apiVars

\* Intents of the run the monitor watches: account 0 sends 0.001 ETH.
MonitoredIntents == {<<0, 1, <<1000000, 1000000>>>>}

NextMonitor ==
    \/ MonReadTotal
    \/ MonReadSuccessful
    \/ MonReadFailed
    \/ MonSleep
    \/ \E i \in OpIds, intent \in MonitoredIntents :
          Dispatch(i, intent[1], intent[2], intent[3])
    \/ \E i \in OpIds : Resolve(i)
    \/ \E i \in OpIds : GasPrice(i)
    \/ \E i \in OpIds : Nonce(i)
    \/ \E i \in OpIds : Check(i)
    \/ \E i \in OpIds : Send(i)
    \/ \E i \in OpIds : Receipt(i)
    \/ \E i \in OpIds : Timeout(i)
    \/ \E i \in OpIds : WaitError(i)
    \/ \E i \in OpIds : Debit(i)
    \/ \E i \in OpIds : Count(i)
    \/ \E i \in OpIds : Status(i)
    \/ \E i \in OpIds : Hook(i)
    \/ \E i \in OpIds : Except(i)
    \/ \E i \in OpIds : ExceptReturn(i)
    \/ \E i \in OpIds : Return(i)
    \/ \E j \in OpIds, st \in {"ok", "fail"} : Mine(j, st)
    \/ Tick

SpecMonitor == Init /\ [][NextMonitor]_vars

\* ------------------------------------------------------------ initialize
\* The simulator after __init__, before initialize.
InitLoad ==
    /\ balance_cache = [a \in Accounts |-> Nil]
    /\ balance_age = [a \in Accounts |-> Nil]
    /\ stats = [total_transactions |-> 0, successful_transactions |-> 0,
                failed_transactions |-> 0, insufficient_funds |-> 0,
                total_gas_used |-> 0]
    /\ on_transaction_complete = "none"
    /\ ops = [i \in OpIds |-> NoOp]
    /\ current = NoTask
    /\ issueLog = [a \in Accounts |-> <<>>]
    /\ sendLog = [a \in Accounts |-> <<>>]
    /\ undebited = [a \in Accounts |-> 0]
    /\ chainBal = [a \in Accounts |-> InitialBalance(a)]
    /\ chainNonce = [a \in Accounts |-> 0]
    /\ pool = {}
    /\ running = FALSE
    /\ gen = NoGen
    /\ strat = [s \in StrategyIds |-> NoStrat]
    /\ multi = "idle"
    /\ mon = NoMon
    /\ pace = NoPace
    /\ accounts = <<>>
    /\ private_keys = <<>>
    /\ probe = NoProbe

\* initialize, lines 55-84, for a node that reports m accounts: take the
\* accounts and build the keys, refresh the cache of every account for which
\* a balance query succeeds (the model keeps the entries of the accounts in
\* Accounts), then read the balance of account 0, which raises IndexError
\* when no account was loaded.
initialize(m, okset) ==
    /\ probe.call = "none"
    /\ accounts = <<>>
    /\ accounts' = AccountsFrom(SourceAccounts(m))
    /\ private_keys' = KeysFor(Len(AccountsFrom(SourceAccounts(m))))
    /\ LET loaded == {a \in okset : a < Len(AccountsFrom(SourceAccounts(m)))}
       IN  /\ balance_cache' = [a \in Accounts |->
                                  IF a \in loaded THEN chainBal[a] ELSE balance_cache[a]]
           /\ balance_age' = [a \in Accounts |->
                                  IF a \in loaded THEN 0 ELSE balance_age[a]]
    /\ probe' = [NoProbe EXCEPT !.call = "initialize",
                                !.raised = IF AccountsFrom(SourceAccounts(m)) = <<>>
                                           THEN "IndexError" ELSE "none"]
    /\ UNCHANGED <<stats, on_transaction_complete, ops, current, logVars, undebited,
                   ledgerVars, runVars, mon, pace>>

\* send_transaction_async, lines 137-139 and 177, seen alone: the
\* transaction names accounts[from_idx] as its sender and is signed with
\* private_keys[from_idx].
Sign(from_idx) ==
    /\ probe.call \in {"initialize", "sign"}
    /\ probe.raised = "none"
    /\ from_idx \in 0 .. (Len(accounts) - 1)
    /\ probe' = [NoProbe EXCEPT !.call = "sign", !.idx = from_idx,
                                !.returned = AddressOf(private_keys[from_idx + 1])]
    /\ UNCHANGED <<balance_cache, balance_age, stats, on_transaction_complete, ops,
                   current, logVars, undebited, ledgerVars, runVars, mon, pace,
                   accounts, private_keys>>

NextLoad ==
    \/ \E m \in SourceSizes, okset \in SUBSET Accounts : initialize(m, okset)
    \/ \E from_idx \in 0 .. (AccountCap - 1) : Sign(from_idx)

SpecLoad == InitLoad /\ [][NextLoad]_vars

\* ------------------------------------------------- the cache, called alone
\* What the call in progress leaves in probe when it returns.
Outcome(call, idx, amount, failed, returned, printed) ==
    [NoProbe EXCEPT !.call = call, !.idx = idx, !.amount = amount, !.failed = failed,
                    !.returned = returned, !.printed = printed,
                    !.cache_before = balance_cache, !.age_before = balance_age,
                    !.cache_after = balance_cache', !.age_after = balance_age']

\* get_balance(account_idx), lines 86-102: a failed query is passed over
\* without a message and the cached value, 0 when there is none, is returned.
GetBalance(account_idx, rpc_ok) ==
    /\ account_idx \in 0 .. (Len(accounts) - 1)
    /\ rpc_ok \in RpcOutcomes(accounts[account_idx + 1])
    /\ LET address == accounts[account_idx + 1]
       IN  /\ balance_cache' = CacheAfterGet(address, rpc_ok)
           /\ balance_age' = AgeAfterGet(address, rpc_ok)
           /\ undebited' = UndebitedAfterGet(address, rpc_ok)
           /\ probe' = Outcome("get_balance", account_idx, Nil,
                               IF rpc_ok THEN {} ELSE {address},
                               get_balance(address, rpc_ok), 0)
    /\ UNCHANGED <<stats, on_transaction_complete, ops, current, logVars, ledgerVars,
                   runVars, mon, pace, accounts, private_keys>>

\* update_balance_cache, lines 104-112: one line is printed for every
\* account whose query fails.
UpdateBalanceCache(okset) ==
    /\ balance_cache' = CacheAfterUpdate(okset)
    /\ balance_age' = AgeAfterUpdate(okset)
    /\ undebited' = UndebitedAfterUpdate(okset)
    /\ probe' = Outcome("update_balance_cache", Nil, Nil, Accounts \ okset, Nil,
                        Cardinality(Accounts \ okset))
    /\ UNCHANGED <<stats, on_transaction_complete, ops, current, logVars, ledgerVars,
                   runVars, mon, pace, accounts, private_keys>>

\* Amounts (gwei) can_afford_transaction is asked about.
AffordAmounts == {1000000, 600000000}

\* can_afford_transaction(account_idx, amount_wei), lines 114-120: the
\* balance comes from get_balance, the fee is 21000 gas at 2 gwei.
can_afford_transaction(account_idx, amount_wei, rpc_ok) ==
    /\ account_idx \in 0 .. (Len(accounts) - 1)
    /\ rpc_ok \in RpcOutcomes(accounts[account_idx + 1])
    /\ LET address == accounts[account_idx + 1]
           balance == get_balance(address, rpc_ok)
           gas_cost == Gas * DefaultGasPrice
           total_cost == amount_wei + gas_cost
       IN  /\ balance_cache' = CacheAfterGet(address, rpc_ok)
           /\ balance_age' = AgeAfterGet(address, rpc_ok)
           /\ undebited' = UndebitedAfterGet(address, rpc_ok)
           /\ probe' = Outcome("can_afford_transaction", account_idx, amount_wei,
                               IF rpc_ok THEN {} ELSE {address},
                               balance >= total_cost, 0)
    /\ UNCHANGED <<stats, on_transaction_complete, ops, current, logVars, ledgerVars,
                   runVars, mon, pace, accounts, private_keys>>

NextCache ==
    \/ \E account_idx \in Accounts, rpc_ok \in BOOLEAN : GetBalance(account_idx, rpc_ok)
    \/ \E okset \in SUBSET Accounts : UpdateBalanceCache(okset)
    \/ \E account_idx \in Accounts, amount_wei \in AffordAmounts, rpc_ok \in BOOLEAN :
          can_afford_transaction(account_idx, amount_wei, rpc_ok)
    \/ Tick

SpecCache == Init /\ [][NextCache]_vars

\* A simulate_random_trading run that finds no sender, round after round,
\* and that another thread may stop.
NextStarved ==
    \/ \E args \in StarvedArgs : RunStart(args)
    \/ \E tried \in SUBSET Accounts, okset \in SUBSET Accounts : Select(tried, okset)
    \/ WakeFailInTime
    \/ RunReturn
    \/ Stop
    \/ Tick

SpecStarved == Init /\ [][NextStarved]_vars

\* (from_idx, to_idx) of calls made with indices as they come: in range, a
\* recipient counted from the end, a sender or a recipient beyond the end.
IndexIntents == {<<0, 1>>, <<0, 0 - 1>>, <<NumAccounts, 0>>, <<0, NumAccounts>>}

NextIndex ==
    \/ \E i \in OpIds, intent \in IndexIntents :
          Dispatch(i, intent[1], intent[2], <<1000000, 1000000>>)
    \/ \E i \in OpIds : Resolve(i)
    \/ \E i \in OpIds : GasPrice(i)
    \/ \E i \in OpIds : Nonce(i)
    \/ \E i \in OpIds : Check(i)
    \/ \E i \in OpIds : Send(i)
    \/ \E i \in OpIds : Receipt(i)
    \/ \E i \in OpIds : Timeout(i)
    \/ \E i \in OpIds : WaitError(i)
    \/ \E i \in OpIds : Debit(i)
    \/ \E i \in OpIds : Count(i)
    \/ \E i \in OpIds : Status(i)
    \/ \E i \in OpIds : Hook(i)
    \/ \E i \in OpIds : Except(i)
    \/ \E i \in OpIds : ExceptReturn(i)
    \/ \E i \in OpIds : Return(i)
    \/ \E j \in OpIds, st \in {"ok", "fail"} : Mine(j, st)
    \/ Tick

SpecIndex == Init /\ [][NextIndex]_vars

\* simulate_multi_strategy with any strategies added, one of them with a
\* pool of a single account, next to a simulate_random_trading run; every
\* coroutine that can take a step eventually takes one.
NextTerm ==
    \/ \E args \in StarvedArgs : RunStart(args)
    \/ \E tried \in SUBSET Accounts, okset \in SUBSET Accounts : Select(tried, okset)
    \/ WakeFail
    \/ RunReturn
    \/ Stop
    \/ \E added \in SUBSET StrategyIds : added # {} /\ StartMultiWith(added)
    \/ \E s \in StrategyIds : StratStart(s)
    \/ \E s \in StrategyIds, i \in OpIds, f \in Accounts, t \in Accounts :
          \E amount \in {Strategy(s).min_amount, Strategy(s).max_amount} :
             StratCall(s, i, f, t, amount)
    \/ \E s \in StrategyIds : StratWake(s)
    \/ MultiReturn
    \/ \E i \in OpIds : Resolve(i)
    \/ \E i \in OpIds : GasPrice(i)
    \/ \E i \in OpIds : Nonce(i)
    \/ \E i \in OpIds : Check(i)
    \/ \E i \in OpIds : Send(i)
    \/ \E i \in OpIds : Receipt(i)
    \/ \E i \in OpIds : Timeout(i)
    \/ \E i \in OpIds : WaitError(i)
    \/ \E i \in OpIds : Debit(i)
    \/ \E i \in OpIds : Count(i)
    \/ \E i \in OpIds : Status(i)
    \/ \E i \in OpIds : Hook(i)
    \/ \E i \in OpIds : Except(i)
    \/ \E i \in OpIds : ExceptReturn(i)
    \/ \E i \in OpIds : Return(i)
    \/ \E j \in OpIds, st \in {"ok", "fail"} : Mine(j, st)
    \/ Tick

SpecTerm == Init /\ [][NextTerm]_vars /\ WF_vars(NextTerm)

\* Variant: a run that follows another starts with fresh counters.
RunAgainReset(args) ==
    /\ gen.pc = "returned"
    /\ current = NoTask
    /\ running' = TRUE
    /\ gen' = [NoGen EXCEPT !.pc = "select", !.min_amount = args[1],
                            !.max_amount = args[2]]
    /\ current' = GenTask
    /\ stats' = [f \in DOMAIN stats |-> 0]
    /\ UNCHANGED <<balance_cache, balance_age, on_transaction_complete, ops,
                   logVars, undebited, ledgerVars, strat, multi, mon, pace>>
    /\ UNCHANGED apiVars

\* Lines 226-236 of simulate_random_trading, called again on the simulator
\* after an earlier run has returned (main.py 46-70): running is set,
\* stats['start_time'] is taken anew, the locals tasks and failed_attempts
\* start empty; no counter of stats is touched.
RunAgain(args) ==
    /\ gen.pc = "returned"
    /\ current = NoTask
    /\ running' = TRUE
    /\ gen' = [NoGen EXCEPT !.pc = "select", !.min_amount = args[1],
                            !.max_amount = args[2]]
    /\ current' = GenTask
    /\ UNCHANGED <<balance_cache, balance_age, stats, on_transaction_complete, ops,
                   logVars, undebited, ledgerVars, strat, multi, mon, pace>>
    /\ UNCHANGED apiVars

\* get_performance_stats, lines 290-304: the transactions this simulator has
\* recorded since stats['start_time'] are those of the calls the current run
\* of simulate_random_trading has created, at most one record per call.
RecordedSinceStart == gen.issued

\* Arguments (min_amount, max_amount) of the successive runs.
WindowArgs == {<<490000000, 490000000>>}

\* Successive runs of simulate_random_trading on one simulator.
NextWindow ==
    \/ \E args \in WindowArgs : RunStart(args)
    \/ \E tried \in SUBSET Accounts, okset \in SUBSET Accounts : Select(tried, okset)
    \/ WakeFail
    \/ \E i \in OpIds, t \in Accounts : Create(i, t)
    \/ Wake
    \/ RunReturn
    \/ Stop
    \/ \E i \in OpIds : Resolve(i)
    \/ \E i \in OpIds : GasPrice(i)
    \/ \E i \in OpIds : Nonce(i)
    \/ \E i \in OpIds : Check(i)
    \/ \E i \in OpIds : Send(i)
    \/ \E i \in OpIds : Receipt(i)
    \/ \E i \in OpIds : Timeout(i)
    \/ \E i \in OpIds : WaitError(i)
    \/ \E i \in OpIds : Debit(i)
    \/ \E i \in OpIds : Count(i)
    \/ \E i \in OpIds : Status(i)
    \/ \E i \in OpIds : Hook(i)
    \/ \E i \in OpIds : Except(i)
    \/ \E i \in OpIds : ExceptReturn(i)
    \/ \E i \in OpIds : Return(i)
    \/ \E j \in OpIds, st \in {"ok", "fail"} : Mine(j, st)
    \/ Tick
    \/ \E args \in WindowArgs : RunAgain(args)

SpecWindow == Init /\ [][NextWindow]_vars

TypeOK ==
    /\ \A a \in Accounts : balance_cache[a] = Nil \/ balance_cache[a] >= 0
    /\ \A a \in Accounts : chainBal[a] >= 0
    /\ current \in OpIds \cup {NoTask, GenTask}

\* ------------------------------------------------------------- properties
\* Locals of the call are present: it has started and has not returned.
Live(i) == ops[i].pc \notin {"none", "queued", "done"}

\* No call of send_transaction_async is in progress.
Quiescent == \A i \in OpIds : ~Live(i)

\* The call has handed its transaction to send_raw_transaction.
Sent(i) == ops[i].sends >= 1

PosIn(log, id) == CHOOSE p \in DOMAIN log : log[p] = id

\* C1: once the ledger has taken a transaction of account A with nonce n, no
\* later operation of A carries the nonce n (or a smaller one) to the
\* executor: nonces of one account are never handed out twice.
C1_TokensNeverReused ==
    \A a \in Accounts : \A p, q \in DOMAIN sendLog[a] :
        (p < q /\ sendLog[a][p][3]) => sendLog[a][p][2] < sendLog[a][q][2]

\* C2: for every account the operations reach send_raw_transaction in the
\* order in which their nonces were read, and a larger nonce is never sent
\* before a smaller one.
C2_SubmissionInTokenOrder ==
    \A a \in Accounts : \A p, q \in DOMAIN sendLog[a] :
        p < q =>
            /\ sendLog[a][p][2] <= sendLog[a][q][2]
            /\ PosIn(issueLog[a], sendLog[a][p][1]) < PosIn(issueLog[a], sendLog[a][q][1])

C2_Witness ==
    \E a \in Accounts :
        /\ Len(sendLog[a]) >= 2
        /\ sendLog[a][1][2] < sendLog[a][2][2]

\* C3: an operation whose final affordability check (amount + fee <= cached
\* balance) was false never reaches the executor: nothing is sent for it and
\* the ledger holds no transaction of it.
C3_NoSendAfterFailedCheck ==
    \A i \in OpIds :
        ops[i].afford = "no" =>
            /\ ops[i].sends = 0
            /\ ops[i].pc \in {"except", "except2", "return"}
            /\ \A tx \in pool : tx.id # i
            /\ \A a \in Accounts : \A p \in DOMAIN sendLog[a] : sendLog[a][p][1] # i

C3_Witness == \E i \in OpIds : ops[i].afford = "no" /\ ops[i].pc = "return"

\* C4: whenever no operation is in progress, total_transactions equals
\* successful_transactions + failed_transactions.
C4_TotalIsSuccessPlusFailed ==
    Quiescent =>
        stats.total_transactions = stats.successful_transactions + stats.failed_transactions

C4_Witness ==
    /\ Quiescent
    /\ stats.successful_transactions >= 1
    /\ stats.failed_transactions >= 1

\* C5: whenever no operation is in progress, total_transactions equals the
\* number of intents that were handed to send_transaction_async and have
\* returned: each intent is counted exactly once.
C5_EachIntentCountedOnce ==
    Quiescent =>
        stats.total_transactions = Cardinality({i \in OpIds : ops[i].pc = "done"})

\* C6: the executor is called at most once per intent, and an intent whose
\* wait for the receipt timed out has increased the failed counter exactly once.
C6_NoRetry ==
    /\ \A i \in OpIds : ops[i].sends <= 1
    /\ \A a \in Accounts : \A p, q \in DOMAIN sendLog[a] :
          p # q => sendLog[a][p][1] # sendLog[a][q][1]
    /\ \A i \in OpIds :
          (ops[i].pc = "return" /\ ops[i].error = "timeout") =>
              (ops[i].sends = 1 /\ ops[i].failed = 1)

C6_Witness == \E i \in OpIds : ops[i].pc = "return" /\ ops[i].error = "timeout"

\* C7: with an observer registered, every intent that reached the executor
\* has had the observer called exactly once by the time it has returned.
C7_HookOncePerSubmitted ==
    on_transaction_complete # "none" =>
        \A i \in OpIds : (ops[i].pc = "return" /\ Sent(i)) => ops[i].hooks = 1

\* C8: the amount handed to the executor is min(requested amount, cached
\* balance - gas reserve), it never exceeds cached balance - gas reserve, and
\* an intent is rejected by the amount resolution only when nothing is
\* spendable (a larger request is clamped instead).
C8_SafeAmount ==
    /\ \A i \in OpIds :
        (Live(i) /\ Sent(i)) =>
            /\ ops[i].safe_amount = Min(ops[i].amount_eth, ops[i].safe_balance - GasReserve)
            /\ ops[i].safe_amount <= ops[i].safe_balance - GasReserve
            /\ \A tx \in pool : tx.id = i => tx.value = ops[i].safe_amount
    /\ \A i \in OpIds :
        (Live(i) /\ ops[i].error = "insufficient" /\ ops[i].afford = "none") =>
            ops[i].safe_balance - GasReserve <= 0

C8_Witness ==
    \E i \in OpIds :
        /\ ops[i].pc = "wait"
        /\ ops[i].amount_eth > ops[i].safe_balance - GasReserve
        /\ ops[i].safe_amount = ops[i].safe_balance - GasReserve
        /\ \E tx \in pool : tx.id = i

\* C9: no operation reaches the executor with an amount below the minimum
\* amount of the generator that requested it.
C9_NeverBelowMinimum ==
    \A i \in OpIds : (Live(i) /\ Sent(i)) => ops[i].safe_amount >= ops[i].min_amount

\* C10: an affordability check made on the cached balance of account A
\* without a refresh sees the debit of every operation of A submitted since
\* the last refresh: nothing submitted is left undebited.
C10_DebitVisible ==
    \A i \in OpIds :
        (ops[i].pc = "check" /\ ~NeedsRefresh(ops[i].from_idx)) =>
            undebited[ops[i].from_idx] = 0

\* C11: a balance that get_balance returns to send_transaction_async, and on
\* which the amount is resolved or the final check passes, was read from the
\* ledger within the staleness window: after the step the cache entry of the
\* sender is present and at most 5 seconds old.
C11_AuthorizedOnFreshBalance ==
    [][\A i \in OpIds :
          \/ (ops[i].pc = "queued" /\ ops'[i].pc = "gas")
          \/ (ops[i].pc = "check" /\ ops'[i].pc = "send")
          => /\ balance_age'[ops[i].from_idx] # Nil
             /\ balance_age'[ops[i].from_idx] <= StaleWindow]_vars

\* C17: while a call is awaiting the settlement of its transaction, the
\* next intent can be handed to the dispatcher, so that it can be submitted
\* while the first is still unsettled.
C17_SubmitWhileAwaiting ==
    \A i, j \in OpIds :
        (AwaitingSettlement(i) /\ NextIntent(j)) =>
            ENABLED (\E f \in Accounts, t \in Accounts, am \in IntentAmounts :
                        Dispatch(j, f, t, am))

\* C20: a call whose transaction was handed to the executor and whose
\* executor failed (rejection, timeout) returns an outcome record, not nothing.
C20_OutcomeOnExecutorFailure ==
    \A i \in OpIds :
        (ops[i].pc = "return" /\ Sent(i) /\ ops[i].error \in {"timeout", "rejected"}) =>
            ops[i].result = "TransactionResult"

\* C12: once stop() has cleared self.running during a run, no generator
\* creates a task or starts a call of send_transaction_async: every step
\* that brings a new intent to the dispatcher is taken with self.running set.
C12_NoIntentAfterStop ==
    [][\A i \in OpIds : (ops[i].pc = "none" /\ ops'[i].pc # "none") => running]_vars

\* C13: when simulate_random_trading has returned, self.running is False,
\* every task it created is done and every one of them has been counted.
C13_DispatchedSettleBeforeCompletion ==
    gen.pc = "returned" =>
        /\ ~running
        /\ \A i \in OpIds : ops[i].pc \in {"none", "done"}
        /\ Cardinality({i \in OpIds : ops[i].pc = "done"}) = gen.issued
        /\ stats.total_transactions >= gen.issued

C13_Witness ==
    /\ gen.pc = "returned"
    /\ gen.issued >= 2
    /\ stats.successful_transactions >= 1
    /\ stats.failed_transactions >= 1

\* C14: a _run_strategy coroutine of a simulate_multi_strategy call made on
\* a simulator on which nothing else was started (so that nothing can stop
\* it) has issued at least one intent when it returns.
C14_EachStrategyIssues ==
    \A s \in StrategyIds :
        (strat[s].pc = "returned" /\ gen.pc = "idle") => strat[s].issued >= 1

\* C19: a failure inside a call of send_transaction_async stays inside it:
\* no exception leaves the call, no _run_strategy coroutine and no
\* simulate_multi_strategy call is ended by one, and every call that has
\* ended has been counted.
C19_FailureContained ==
    /\ \A i \in OpIds : ops[i].pc # "raised"
    /\ \A s \in StrategyIds : strat[s].pc # "aborted"
    /\ multi # "aborted"
    /\ stats.total_transactions >= Cardinality({i \in OpIds : ops[i].pc = "done"})

\* A call has failed and the next call, issued after it, has succeeded.
C19_Witness ==
    \E i, j \in OpIds :
        /\ i < j
        /\ ops[i].pc = "done"
        /\ stats.failed_transactions >= 1
        /\ stats.successful_transactions = 1
        /\ ops[j].pc = "return" /\ ops[j].error = "none" /\ ops[j].status = "ok"
        /\ \E s \in StrategyIds : strat[s].issued >= 2

\* C15: emissions follow the cumulative schedule: counted from the first
\* emission, the k-th later one happens no later than k * interval after it,
\* whatever time the earlier calls and selections took.
C15_CumulativeSchedule ==
    \A k \in DOMAIN pace.emitted :
       pace.emitted[k] <= pace.emitted[1] + (k - 1) * interval

\* C16: two consecutive emissions of a generator are at least one interval
\* apart, so k emissions take at least (k-1) * interval.
C16_NeverFasterThanRate ==
    \A k \in DOMAIN pace.emitted :
       k > 1 => pace.emitted[k] - pace.emitted[k - 1] >= interval

\* A generator of either kind has emitted three intents, the last two
\* exactly one interval apart.
C16_Witness ==
    /\ Len(pace.emitted) >= 3
    /\ pace.emitted[3] - pace.emitted[2] = interval
    /\ pace.emitted[2] - pace.emitted[1] > interval

\* C18: a snapshot returned by get_performance_stats shows values the
\* counters had together at one instant; at every instant a transaction that
\* is counted as successful or failed is counted in the total, so a snapshot
\* never shows more successful and failed transactions than total ones.
C18_SnapshotConsistent ==
    mon.pc = "snapshot" =>
       mon.successful_transactions + mon.failed_transactions
          <= mon.total_transactions

\* C24: initialize either loads exactly the number of accounts asked for,
\* AccountCap, at the indices 0 .. AccountCap - 1, or fails.
C24_LoadsExactlyOrFails ==
    probe.call = "initialize" =>
       \/ probe.raised # "none"
       \/ /\ Len(accounts) = AccountCap
          /\ Len(private_keys) = AccountCap

\* C27: for every loaded index, the key stored at the index signs for the
\* address stored at the index.
C27_KeyMatchesAddress ==
    \A k \in DOMAIN accounts :
       /\ k \in DOMAIN private_keys
       /\ AddressOf(private_keys[k]) = accounts[k]

\* The cached balance get_balance returns for an entry: 0 when absent.
CachedValue(cache, a) == IF cache[a] = Nil THEN 0 ELSE cache[a]

\* C21: when a balance query of get_balance or update_balance_cache has
\* failed, the call has not raised, the entry of each account whose query
\* failed is as it was (value and age), get_balance has returned the cached
\* value, update_balance_cache has refreshed every other account, and a
\* warning was given.
C21_RefreshFailureRetainsAndWarns ==
    (probe.call \in {"get_balance", "update_balance_cache"} /\ probe.failed # {}) =>
       /\ probe.raised = "none"
       /\ \A a \in probe.failed :
             /\ probe.cache_after[a] = probe.cache_before[a]
             /\ probe.age_after[a] = probe.age_before[a]
       /\ probe.call = "get_balance" =>
             probe.returned = CachedValue(probe.cache_before, accounts[probe.idx + 1])
       /\ probe.call = "update_balance_cache" =>
             \A a \in Accounts \ probe.failed : probe.age_after[a] = 0
       /\ probe.printed >= 1

\* C22: can_afford_transaction answers whether amount plus fee estimate is
\* covered by the cached balance of the account, and leaves the cache and
\* its ages as they were.
C22_AffordCheckIsPure ==
    probe.call = "can_afford_transaction" =>
       /\ probe.returned =
             (probe.amount + Gas * DefaultGasPrice
                <= CachedValue(probe.cache_before, accounts[probe.idx + 1]))
       /\ probe.cache_after = probe.cache_before
       /\ probe.age_after = probe.age_before

\* C23: an intent simulate_random_trading hands to the dispatcher names a
\* sender and a recipient among the accounts, the two differ, and its amount
\* lies between min_amount and max_amount of the run.
C23_IntentWellFormed ==
    \A i \in OpIds :
       ops[i].pc = "queued" =>
          /\ ops[i].from_idx \in Accounts
          /\ ops[i].to_idx \in Accounts
          /\ ops[i].to_idx # ops[i].from_idx
          /\ gen.min_amount <= ops[i].amount_eth
          /\ ops[i].amount_eth <= gen.max_amount

\* C25: a call that was rejected for insufficient funds, at the first or at
\* the final check, has not obtained a nonce.
C25_NoTokenForRejected ==
    \A i \in OpIds : ops[i].error = "insufficient" => ops[i].nonce = Nil

\* C26: when the call is about to invoke the registered observer for its
\* transaction, the sender's cache entry already holds the balance less
\* amount and fee, and the counters already include the transaction.
C26_DebitStatsBeforeHook ==
    \A i \in OpIds :
       (ops[i].pc = "hook" /\ on_transaction_complete = "set") =>
          /\ balance_cache[ops[i].from_idx] = ops[i].balance - ops[i].total_cost
          /\ balance_age[ops[i].from_idx] = 0
          /\ ops[i].counted = 1
          /\ stats.total_transactions >= 1
          /\ IF ops[i].status = "ok"
             THEN stats.successful_transactions >= 1
             ELSE stats.failed_transactions >= 1 /\ ops[i].failed = 1

\* The observer was invoked for a mined transaction and has returned.
C26_Witness ==
    \E i \in OpIds :
       /\ ops[i].pc = "return"
       /\ ops[i].hooks = 1
       /\ ops[i].error = "none"
       /\ ops[i].status = "ok"
       /\ balance_cache[ops[i].from_idx] = ops[i].balance - ops[i].total_cost

\* C29: a step changes the insufficient_funds counter exactly when it
\* rejects a call for insufficient funds, and then by one; a call rejected
\* for insufficient funds has not called the executor and is on its way out.
C29_InsufficientCountedOnce ==
    [][LET rejected == {i \in OpIds : /\ ops[i].error # "insufficient"
                                      /\ ops'[i].error = "insufficient"}
       IN  /\ stats'.insufficient_funds
                 = stats.insufficient_funds + Cardinality(rejected)
           /\ \A i \in OpIds :
                 ops'[i].error = "insufficient" =>
                    /\ ops'[i].sends = 0
                    /\ ops'[i].pc \in {"except", "except2", "return"}]_vars

\* Two calls were rejected for insufficient funds; the second is about to
\* return and was not sent.
C29_Witness ==
    /\ stats.insufficient_funds = 2
    /\ \E i \in OpIds :
          /\ ops[i].pc = "return"
          /\ ops[i].error = "insufficient"
          /\ ops[i].sends = 0

\* C28: a round of simulate_random_trading that finds no sender issues no
\* intent, and while the duration has not elapsed the loop is left after
\* such a round only when stop() has cleared self.running.
C28_ExhaustionIsTransient ==
    [][/\ (gen.pc = "select" /\ gen'.pc = "sleep_fail") =>
             (ops' = ops /\ gen'.issued = gen.issued)
       /\ (gen.pc = "sleep_fail" /\ gen'.pc = "gather") => ~running]_vars

\* C30: a call made with a sender or recipient index outside
\* 0 .. len(accounts) - 1 fails with an index error: it is on its way out
\* through the except clause, has not called the executor and has debited
\* no cache entry.
C30_OutOfRangeFails ==
    \A i \in OpIds :
       ops[i].out_of_range =>
          /\ ops[i].error = "index"
          /\ ops[i].pc \in {"except", "except2", "return"}
          /\ ops[i].sends = 0
          /\ ops[i].total_cost = Nil

\* C31: every _run_strategy coroutine that was created returns, and a
\* simulate_random_trading run that was started returns.
C31_GeneratorsReturn ==
    /\ \A s \in StrategyIds : (strat[s].pc = "created") ~> (strat[s].pc = "returned")
    /\ (gen.pc = "select") ~> (gen.pc = "returned")

\* C32: the cache never authorizes an overspend. Calls run one after the
\* other, so the cached balance of account A is the balance observed at its
\* last refresh less the debits applied since, and the operations of A handed
\* to the executor since that refresh add up to those debits plus
\* undebited[A]: their sum stays within the observed balance exactly when
\* undebited[A] stays within the cached balance, which is never negative.
C32_NoOverspend ==
    \A a \in Accounts :
        balance_cache[a] # Nil =>
            /\ balance_cache[a] >= 0
            /\ undebited[a] <= balance_cache[a]

\* C33: a step of send_transaction_async leaves the cache entry of every
\* account but the sender as it was and does not renew its timestamp (the
\* entry can only grow older); the sender's entry changes only by a refresh
\* from the ledger when the entry is stale, or by the subtraction of amount
\* plus gas * gas_price in the step after the receipt; no call reaches that
\* step without a receipt.
C33_OnlySenderEntryChanges ==
    [][\A i \in OpIds :
          (ops[i].pc # "none" /\ ops'[i].pc # ops[i].pc) =>
             LET sender == IF ops[i].pc = "queued"
                           THEN Lookup(accounts, ops[i].from_idx)
                           ELSE ops[i].from_idx
             IN  /\ \A a \in Accounts \ {sender} :
                       /\ balance_cache'[a] = balance_cache[a]
                       /\ IF balance_age[a] = Nil
                          THEN balance_age'[a] = Nil
                          ELSE balance_age'[a] >= balance_age[a]
                 /\ (sender \in Accounts /\ balance_cache'[sender] # balance_cache[sender]) =>
                       \/ /\ ops[i].pc \in {"queued", "check"}
                          /\ NeedsRefresh(sender)
                          /\ balance_cache'[sender] = chainBal[sender]
                       \/ /\ ops[i].pc = "debit"
                          /\ balance_cache'[sender] =
                                balance_cache[sender]
                                  - (ops[i].safe_amount + Gas * ops[i].gas_price)
                 /\ ops'[i].pc = "debit" =>
                       /\ ops[i].pc = "wait"
                       /\ ops[i].status # "none"
                       /\ ops[i].error = "none"]_vars

\* A call has debited its sender while the recipient has a cache entry.
C33_Witness ==
    \E i \in OpIds :
       /\ ops[i].pc = "count"
       /\ balance_cache[ops[i].to_idx] # Nil
       /\ balance_cache[ops[i].from_idx] = ops[i].balance - ops[i].total_cost

\* C34: once simulate_random_trading has set start_time, total_transactions
\* counts no transaction recorded before it: the counter does not exceed
\* the number of calls issued since start_time.
C34_CountsCurrentWindow ==
    gen.pc # "idle" => stats.total_transactions <= RecordedSinceStart

\* C35: whenever no call of send_transaction_async is in progress,
\* insufficient_funds <= failed_transactions <= total_transactions and
\* successful_transactions <= total_transactions; no step, of a first run or
\* of a later one, decreases a counter.
C35_CountersOrderedAndGrowing ==
    /\ [](Quiescent =>
            /\ stats.insufficient_funds <= stats.failed_transactions
            /\ stats.failed_transactions <= stats.total_transactions
            /\ stats.successful_transactions <= stats.total_transactions)
    /\ [][\A f \in DOMAIN stats : stats'[f] >= stats[f]]_vars

\* A later run has recorded a call on top of the counters of an earlier
\* run, one of the calls having been rejected for insufficient funds.
C35_Witness ==
    /\ Quiescent
    /\ gen.issued >= 1
    /\ gen.issued < stats.total_transactions
    /\ stats.insufficient_funds >= 1
    /\ stats.failed_transactions >= 1

====
